---- MODULE Spec2Model ----
(***************************************************************************)
(* scopefn: Kotlin style scope functions for C++ (src/scopefn.hpp).        *)
(*                                                                         *)
(* The state is the evaluation of one C++ expression statement: either a   *)
(* chain  c.let(f).also(g) ... / c | let(f) | also(g) ...  or a `with(f)`  *)
(* statement.  Every state of a chain is the state in which the expression *)
(* built so far has been evaluated; a step extends the expression by one   *)
(* link and evaluates that link (C++ evaluates a chain left to right, so   *)
(* the evaluation of a link only depends on the state its prefix left).    *)
(* A link the compiler refuses (static_assert, failed deduction, no        *)
(* viable call) gives no program at all: state "rejected", nothing ran.    *)
(***************************************************************************)
EXTENDS Integers, Sequences, FiniteSets, TLC

(* ------------------------------ bounds --------------------------------- *)
\* longest chain (number of links) that is evaluated
MaxChain == 3
\* longest std::vector<int> a chain starts from
MaxLen == 3
\* largest element of such a vector
MaxElem == 3

VARIABLES
    pc,      \* "start" | "chain" | "with" | "consumed" | "rejected" | "thrown"
    heap,    \* the objects: named variables first, then temporaries
    cur,     \* the left operand of the next link
    origin,  \* address of the object the chain was started on (0: none)
    hist,    \* one record per link evaluated so far
    ref,     \* the same callables applied by hand, without the library
    wrapper, \* the `with` object of a with statement
    rejected, \* the link the compiler refused
    closures \* the caller's named closure objects: counter, ticker

vars == <<pc, heap, cur, origin, hist, ref, wrapper, rejected, closures>>

(* ------------------------------ values --------------------------------- *)
Types == {"Person", "Vec", "UInt"}

\* the types that inherit ScopeFunctions<T> (tests/testentities.hpp)
Hosts == {"Person"}

Void == [kind |-> "void"]
Value(t, v) == [kind |-> "value", type |-> t, val |-> v]
Ref(a) == [kind |-> "ref", addr |-> a]
\* a call left by an exception: `throw std::runtime_error(e)`
Thrown(e) == [kind |-> "throw", what |-> e]

Obj(t, v, c) == [type |-> t, val |-> v, const |-> c]

PersonVal(n, l, a) == [name |-> n, location |-> l, age |-> a]

\* Person person{.name = "Alice", .location = "London", .age = 20};
Alice == PersonVal("Alice", "London", 20)

\* Person(): value-initialised
Nobody == PersonVal("", "", 0)

\* addresses of the named variables of the calling scope
personAddr == 1
cpersonAddr == 2
numAddr == 3

\*   Person person{...};  const Person cperson{...};  unsigned num = 3;
InitHeap ==
    << Obj("Person", Alice, FALSE),
       Obj("Person", Alice, TRUE),
       Obj("UInt", 3, FALSE) >>

\* the vectors a chain starts from: up to MaxLen distinct elements of
\* 1..MaxElem in any order, as std::vector<int>{1, 2, 3} of the tests
VecInputs ==
    UNION { { v \in [1..n -> 1..MaxElem] : \A i, j \in 1..n : i # j => v[i] # v[j] } :
            n \in 1..MaxLen }

RECURSIVE MaxOf(_)
MaxOf(s) ==
    IF Len(s) = 1 THEN s[1]
    ELSE LET m == MaxOf(Tail(s)) IN IF s[1] >= m THEN s[1] ELSE m

(* ----------------------------- callables -------------------------------- *)
\* A lambda: params is the number of parameters its operator() declares,
\* ptype/pconst/pref the declared parameter (pref: "none" by value, "lref",
\* "rref"), dflt whether the parameter has a default argument, cap the
\* address captured as `self = &x` (0: none), rtype/rref the declared result.
\* st is the state the closure object holds itself: the value of a by-value
\* capture `c = 0u` that a mutable operator() changes (0 when there is none).
Lam(id, params, ptype, pconst, pref, dflt, cap, rtype, rref) ==
    [id |-> id, params |-> params, ptype |-> ptype, pconst |-> pconst,
     pref |-> pref, dflt |-> dflt, cap |-> cap, rtype |-> rtype, rref |-> rref,
     st |-> 0]

\* [](Person& it) { it.location.clear(); }
clearLocationIt == Lam("clearLocationIt", 1, "Person", FALSE, "lref", FALSE, 0, "void", FALSE)
\* [](Person it) { it.age = 0; return it.age; }
zeroAgeVal == Lam("zeroAgeVal", 1, "Person", FALSE, "none", FALSE, 0, "UInt", FALSE)
\* [](const Person& it) { return it.age; }
ageOf == Lam("ageOf", 1, "Person", TRUE, "lref", FALSE, 0, "UInt", FALSE)
\* [](Person& it) -> Person& { it.name = "Bob"; return it; }
renameSelf == Lam("renameSelf", 1, "Person", FALSE, "lref", FALSE, 0, "Person", TRUE)
\* [](Person&& it) { }
takeRvalue == Lam("takeRvalue", 1, "Person", FALSE, "rref", FALSE, 0, "void", FALSE)
\* [](std::vector<int>& it) { it.push_back(4); return it; }
pushBack4 == Lam("pushBack4", 1, "Vec", FALSE, "lref", FALSE, 0, "Vec", FALSE)
\* [](std::vector<int>& it) -> unsigned { return *std::max_element(it.begin(), it.end()).base(); }
maxElement == Lam("maxElement", 1, "Vec", FALSE, "lref", FALSE, 0, "UInt", FALSE)
\* [](unsigned& it) { it = it * 2; }
doubleIt == Lam("doubleIt", 1, "UInt", FALSE, "lref", FALSE, 0, "void", FALSE)
\* [self = &person] { self->name.clear(); }
clearNameSelf == Lam("clearNameSelf", 0, "void", FALSE, "none", FALSE, personAddr, "void", FALSE)
\* [self = &person] { self->age = 8; }
setAgeSelf == Lam("setAgeSelf", 0, "void", FALSE, "none", FALSE, personAddr, "void", FALSE)
\* [self = &person] { return ++self->age; }
bumpAgeSelf == Lam("bumpAgeSelf", 0, "void", FALSE, "none", FALSE, personAddr, "UInt", FALSE)
\* [self = &person](unsigned k = 8) { self->age = k; }
setAgeDefault == Lam("setAgeDefault", 1, "UInt", FALSE, "none", TRUE, personAddr, "void", FALSE)
\* [](Person& it) -> unsigned { it.age = 0; throw std::runtime_error("boom"); }
zeroAgeThrow == Lam("zeroAgeThrow", 1, "Person", FALSE, "lref", FALSE, 0, "UInt", FALSE)
\* [self = &person]() -> unsigned { self->name.clear(); throw std::runtime_error("boom0"); }
clearNameThrow == Lam("clearNameThrow", 0, "void", FALSE, "none", FALSE, personAddr, "UInt", FALSE)
\* auto counter = [c = 0u](unsigned& it) mutable { it += ++c; };
counter == Lam("counter", 1, "UInt", FALSE, "lref", FALSE, 0, "void", FALSE)
\* auto ticker = [c = 0u]() mutable { ++c; };
ticker == Lam("ticker", 0, "void", FALSE, "none", FALSE, 0, "void", FALSE)

\* the lambda expressions written in place as the argument of a scope function
Lambdas ==
    { clearLocationIt, zeroAgeVal, ageOf, renameSelf, takeRvalue, pushBack4,
      maxElement, doubleIt, clearNameSelf, setAgeSelf, bumpAgeSelf,
      setAgeDefault, zeroAgeThrow, clearNameThrow }

\* the closure objects the calling scope has named, as constructed
InitClosures == [counter |-> counter, ticker |-> ticker]

\* What can be written as the argument of a scope function: a lambda
\* expression, or the name of a closure object; the parameter `L lambda` is
\* declared by value, so it is a copy of the named object as it is now.
Callables == Lambdas \cup {closures.counter, closures.ticker}

(* ------------------- scopefn_internal: reflection ---------------------- *)
\* A qualified type, as template argument deduction sees it.
QType(t, c, r) == [type |-> t, const |-> c, ref |-> r]

\* std::remove_cv<std::remove_reference<T>::type>::type
base_type(q) == q.type

\* the declared parameter and result of a lambda's operator()
ParamOf(f) == QType(f.ptype, f.pconst, f.pref)
ResultOf(f) == QType(f.rtype, FALSE, IF f.rref THEN "lref" ELSE "none")

\* FuncType(std::function(std::declval<T>())) is deducible exactly when the
\* operator() has the signature R(A): one declared parameter (a default
\* argument is not part of the signature).
LambdaReflection(f) ==
    IF f.params = 1
    THEN [ok |-> TRUE, return_type |-> base_type(ResultOf(f)),
          argument_type |-> base_type(ParamOf(f))]
    ELSE [ok |-> FALSE, return_type |-> "none", argument_type |-> "none"]

\* FuncTypeNoArg(std::function(std::declval<T>())) is deducible exactly when
\* the operator() has the signature R().
LambdaReflectionNoArg(f) ==
    IF f.params = 0
    THEN [ok |-> TRUE, return_type |-> base_type(ResultOf(f))]
    ELSE [ok |-> FALSE, return_type |-> "none"]

\* the call lambda() is well formed
CallableNoArg(f) == f.params = 0 \/ (f.params = 1 /\ f.dflt)

\* the call lambda(x), x an lvalue of type `t` (const iff c), is well formed
CallableWith(f, t, c) ==
    /\ f.params = 1
    /\ f.ptype = t
    /\ CASE f.pref = "none" -> TRUE
         [] f.pref = "lref" -> (f.pconst \/ ~c)
         [] OTHER -> FALSE

(* ----------------------- what the compiler accepts --------------------- *)
\* The operand of a link, as the compiler sees it: its type, whether it is
\* const, and its value category.
Operand(h, c) ==
    [type |-> h[c.addr].type, const |-> h[c.addr].const, cat |-> c.cat]

\* a member function of ScopeFunctions<Base> can be named on the operand:
\* its type inherits the mixin and, the member functions being non-const,
\* the object is not const
HasMixin(o) == o.type \in Hosts /\ ~o.const

\* ScopeFunctions<Base>::let: the return type needs LambdaReflection<L>, the
\* static_assert compares argument_type with Base, the body calls
\* lambda(*static_cast<Base*>(this))
AcceptsMixinLet(o, f) ==
    /\ HasMixin(o)
    /\ LambdaReflection(f).ok
    /\ LambdaReflection(f).argument_type = o.type
    /\ CallableWith(f, o.type, FALSE)

\* ScopeFunctions<Base>::run: the return type needs LambdaReflectionNoArg<L>
AcceptsMixinRun(o, f) ==
    /\ HasMixin(o)
    /\ LambdaReflectionNoArg(f).ok
    /\ CallableNoArg(f)

\* ScopeFunctions<Base>::apply: no reflection, only the call lambda()
AcceptsMixinApply(o, f) ==
    /\ HasMixin(o)
    /\ CallableNoArg(f)

\* ScopeFunctions<Base>::also: static_assert on LambdaReflection<L>, then
\* lambda(*static_cast<Base*>(this))
AcceptsMixinAlso(o, f) ==
    /\ HasMixin(o)
    /\ LambdaReflection(f).ok
    /\ o.type = LambdaReflection(f).argument_type
    /\ CallableWith(f, o.type, FALSE)

\* faulty variant: the static_assert compares base_type<T>
DeducedT_stripped(o) == QType(o.type, FALSE, "none")

\* T as operator|(T&, ...) (lvalue operand) or operator|(T&&, ...) (rvalue
\* operand) deduces it: the operand's type with its const qualifier
DeducedT(o) == QType(o.type, o.const, "none")

\* let<L>(lambda): ARG and RT need LambdaReflection<L>, and
\* std::function<RT(ARG&)> fun(lambda) needs lambda callable with an ARG&
WrapsLet(f) ==
    /\ LambdaReflection(f).ok
    /\ CallableWith(f, LambdaReflection(f).argument_type, FALSE)

\* also<L>(lambda): as let<L>, with std::function<void(ARG&)>
WrapsAlso(f) ==
    /\ LambdaReflection(f).ok
    /\ CallableWith(f, LambdaReflection(f).argument_type, FALSE)

\* run<L>(lambda) and with<L>(lambda): RT needs LambdaReflectionNoArg<L>
WrapsRun(f) == LambdaReflectionNoArg(f).ok

WrapsWith(f) == LambdaReflectionNoArg(f).ok

\* faulty variant: the static_assert is missing
SameAsArg_unchecked(o, f) == TRUE

\* std::is_same_v<T, typename let<L>::ARG>
SameAsArg(o, f) ==
    DeducedT(o) = QType(LambdaReflection(f).argument_type, FALSE, "none")

\* contextObject | let(lambda)
AcceptsPipeLet(o, f) == WrapsLet(f) /\ SameAsArg(o, f)

\* contextObject | also(lambda)
AcceptsPipeAlso(o, f) == WrapsAlso(f) /\ SameAsArg(o, f)

\* contextObject | run(lambda): T is not constrained
AcceptsPipeRun(o, f) == WrapsRun(f)

\* contextObject | with(lambda): no operator| takes a with<L>
AcceptsPipeWith(o, f) == FALSE

(* ------------------------- calling a lambda ---------------------------- *)
\* What the body of lambda `f` does; `it` is the address of its parameter
\* object (0 when it is called without an argument).
Body(f, h, it) ==
    CASE f.id = "clearLocationIt" ->
           [heap |-> [h EXCEPT ![it].val.location = ""], out |-> Void]
      [] f.id = "zeroAgeVal" ->
           [heap |-> [h EXCEPT ![it].val.age = 0], out |-> Value("UInt", 0)]
      [] f.id = "ageOf" ->
           [heap |-> h, out |-> Value("UInt", h[it].val.age)]
      [] f.id = "renameSelf" ->
           [heap |-> [h EXCEPT ![it].val.name = "Bob"], out |-> Ref(it)]
      [] f.id = "pushBack4" ->
           [heap |-> [h EXCEPT ![it].val = Append(@, 4)],
            out |-> Value("Vec", Append(h[it].val, 4))]
      [] f.id = "maxElement" ->
           [heap |-> h, out |-> Value("UInt", MaxOf(h[it].val))]
      [] f.id = "doubleIt" ->
           [heap |-> [h EXCEPT ![it].val = @ * 2], out |-> Void]
      [] f.id = "clearNameSelf" ->
           [heap |-> [h EXCEPT ![f.cap].val.name = ""], out |-> Void]
      [] f.id = "setAgeSelf" ->
           [heap |-> [h EXCEPT ![f.cap].val.age = 8], out |-> Void]
      [] f.id = "bumpAgeSelf" ->
           [heap |-> [h EXCEPT ![f.cap].val.age = @ + 1],
            out |-> Value("UInt", h[f.cap].val.age + 1)]
      [] f.id = "setAgeDefault" ->
           [heap |-> [h EXCEPT ![f.cap].val.age = IF it = 0 THEN 8 ELSE h[it].val],
            out |-> Void]
      [] f.id = "counter" ->
           [heap |-> [h EXCEPT ![it].val = @ + f.st + 1], out |-> Void]
      [] f.id = "ticker" ->
           [heap |-> h, out |-> Void]
      [] f.id = "zeroAgeThrow" ->
           [heap |-> [h EXCEPT ![it].val.age = 0], out |-> Thrown("boom")]
      [] f.id = "clearNameThrow" ->
           [heap |-> [h EXCEPT ![f.cap].val.name = ""], out |-> Thrown("boom0")]
      [] OTHER -> [heap |-> h, out |-> Void]

\* the state the called closure object f holds after its body ran (++c)
StateAfter(f) == IF f.id \in {"counter", "ticker"} THEN f.st + 1 ELSE f.st

\* The call lambda(x) (arg: the address of x) or lambda() (arg = 0).  A
\* parameter declared by value is a new object initialised with a copy of x;
\* a reference parameter is x itself.  st is the state of the called closure
\* object after the call.
Invoke(f, h, arg) ==
    LET byValue == arg # 0 /\ f.pref = "none"
        h1 == IF byValue THEN Append(h, Obj(h[arg].type, h[arg].val, FALSE)) ELSE h
        it == IF byValue THEN Len(h1) ELSE arg
        b == Body(f, h1, it)
    IN  [f |-> f.id, arg |-> arg, it |-> it, heap |-> b.heap, out |-> b.out,
         st |-> StateAfter(f)]

\* faulty variant: the return type keeps the reference (no base_type on return_type)
Decay_keepsReference(h, out) == out

\* A result converted to the return type base_type<R>: a value; a returned
\* reference is copied from.  (An exception is no result: it passes.)
Decay(h, out) ==
    IF out.kind = "ref" THEN Value(h[out.addr].type, h[out.addr].val) ELSE out

\* What a function yields that calls the lambda (call c) and would then
\* `return r;`: no function of the header has a try block, so an exception
\* thrown by the call leaves the function as it is and r is never returned.
Propagate(c, r) == IF c.out.kind = "throw" THEN c.out ELSE r

\* what an application hands back: the heap it leaves, what it returns, and
\* the calls of the lambda it made, in order
Done(h, r, cs) == [heap |-> h, ret |-> r, calls |-> cs]

(* ------------------------- ScopeFunctions<Base> ------------------------ *)
\* faulty variant: let hands the lambda a copy of the host (auto self = *this)
ScopeFunctions_let_onCopy(h, this, f) ==
    LET h1 == Append(h, Obj(h[this].type, h[this].val, FALSE))
        c == Invoke(f, h1, Len(h1))
    IN  Done(c.heap, Decay(c.heap, c.out), <<c>>)

\* return lambda(*static_cast<Base *>(this));
ScopeFunctions_let(h, this, f) ==
    LET c == Invoke(f, h, this)
    IN  Done(c.heap, Propagate(c, Decay(c.heap, c.out)), <<c>>)

\* return lambda();
ScopeFunctions_run(h, this, f) ==
    LET c == Invoke(f, h, 0)
    IN  Done(c.heap, Propagate(c, Decay(c.heap, c.out)), <<c>>)

\* faulty variant: apply returns the host without calling the lambda
ScopeFunctions_apply_noCall(h, this, f) == Done(h, Ref(this), <<>>)

\* lambda(); return *static_cast<Base *>(this);
ScopeFunctions_apply(h, this, f) ==
    LET c == Invoke(f, h, 0) IN Done(c.heap, Propagate(c, Ref(this)), <<c>>)

\* faulty variant: also catches what the lambda throws and returns the host
\*   try { lambda(*this); } catch (...) {}  return *this;
ScopeFunctions_also_swallows(h, this, f) ==
    LET c == Invoke(f, h, this) IN Done(c.heap, Ref(this), <<c>>)

\* lambda(*static_cast<Base*>(this)); return *static_cast<Base*>(this);
ScopeFunctions_also(h, this, f) ==
    LET c == Invoke(f, h, this) IN Done(c.heap, Propagate(c, Ref(this)), <<c>>)

(* --------------------- freestanding wrappers and | --------------------- *)
\* let(L lambda) : fun(lambda) {}   (also run, with, also): the wrapper
\* holds its own std::function made from a copy of the lambda
Wrap(f) == [fun |-> f]

\* the wrapper after the call c of its fun: the closure object the
\* std::function holds is the one whose operator() ran
Called(w, c) == [w EXCEPT !.fun.st = c.st]

\* faulty variant: the scope functions take the callable by reference
\* (L& lambda, fun(std::ref(lambda))): the object called is the caller's
AfterCalls_shared(orig, cs) ==
    IF cs # <<>> /\ cs[Len(cs)].f \in DOMAIN orig
    THEN [orig EXCEPT ![cs[Len(cs)].f].st = cs[Len(cs)].st]
    ELSE orig

\* The caller's named closure objects after an application that made the
\* calls cs: every scope function takes `L lambda` by value and the wrappers
\* copy it once more into fun, so the object that was called is a copy and
\* the caller's objects are as before.
AfterCalls(orig, cs) == orig

\* RT operator()(ARG& contextObject) { return fun(contextObject); }
let_call(h, w, contextObject) ==
    LET c == Invoke(w.fun, h, contextObject)
    IN  Done(c.heap, Propagate(c, Decay(c.heap, c.out)), <<c>>)

\* faulty variant: | let hands on the context object, as | also does
pipe_let_asAlso(h, contextObject, w) ==
    LET c == Invoke(w.fun, h, contextObject)
    IN  Done(c.heap, Propagate(c, Ref(contextObject)), <<c>>)

\* operator|(T& / T&& contextObject, let<L>&& lambda): return lambda(contextObject);
pipe_let(h, contextObject, w) == let_call(h, w, contextObject)

\* RT operator()() { return fun(); }
run_call(h, w) ==
    LET c == Invoke(w.fun, h, 0)
    IN  Done(c.heap, Propagate(c, Decay(c.heap, c.out)), <<c>>)

\* faulty variant: | run hands the context object to the wrapped std::function
pipe_run_passesContext(h, contextObject, w) ==
    LET c == Invoke(w.fun, h, contextObject)
    IN  Done(c.heap, Propagate(c, Decay(c.heap, c.out)), <<c>>)

\* operator|(T& / T&& contextObject, run<L>&& lambda): return lambda();
pipe_run(h, contextObject, w) == run_call(h, w)

\* faulty variant: also::operator() returns ARG (a copy) instead of ARG&
also_call_byValue(h, w, contextObject) ==
    LET c == Invoke(w.fun, h, contextObject)
    IN  Done(c.heap,
             Propagate(c, Value(c.heap[contextObject].type, c.heap[contextObject].val)),
             <<c>>)

\* ARG& operator()(ARG& contextObject) { fun(contextObject); return contextObject; }
also_call(h, w, contextObject) ==
    LET c == Invoke(w.fun, h, contextObject)
    IN  Done(c.heap, Propagate(c, Ref(contextObject)), <<c>>)

\* faulty variant: | also hands on what the lambda returned, as | let does
pipe_also_asLet(h, contextObject, w) == let_call(h, w, contextObject)

\* operator|(T& / T&& contextObject, also<L>&& lambda): return lambda(contextObject);
pipe_also(h, contextObject, w) == also_call(h, w, contextObject)

\* with::operator()(): return fun();
with_call(h, w) ==
    LET c == Invoke(w.fun, h, 0)
    IN  Done(c.heap, Propagate(c, Decay(c.heap, c.out)), <<c>>)

\* with(L lambda) : fun(lambda) { std::invoke(*this); }  the constructor
\* calls operator() and drops what it returns; what the expression with(f)
\* yields is the wrapper object; an exception of the call leaves the
\* constructor
with_ctor(h, f) ==
    LET c == with_call(h, Wrap(f))
    IN  Done(c.heap, IF c.ret.kind = "throw" THEN c.ret ELSE Void, c.calls)

(* ----------------------- evaluating an expression ---------------------- *)
NoCur == [addr |-> 0, cat |-> "none"]

\* What a link's result is as the left operand of the next link: a returned
\* reference is an lvalue for the object it refers to, a returned value is a
\* temporary (a new object), and void is no operand at all; an exception
\* leaves the whole expression.
Bind(h, r) ==
    CASE r.kind = "ref" -> [heap |-> h, cur |-> [addr |-> r.addr, cat |-> "lvalue"]]
      [] r.kind = "throw" -> [heap |-> h, cur |-> [addr |-> 0, cat |-> "thrown"]]
      [] r.kind = "value" ->
           [heap |-> Append(h, Obj(r.type, r.val, FALSE)),
            cur |-> [addr |-> Len(h) + 1, cat |-> "prvalue"]]
      [] OTHER -> [heap |-> h, cur |-> [addr |-> 0, cat |-> "void"]]

\* The same callable applied by hand, on named variables, without the
\* library: let:  auto v = f(c);   run:  auto v = f();
\*          also: f(c);            apply, with: f();
ByHand(kind, f, r) ==
    LET c == Invoke(f, r.heap, IF kind \in {"let", "also"} THEN r.cur ELSE 0)
        b == Bind(c.heap, Decay(c.heap, c.out))
    IN  IF kind \in {"let", "run"}
        THEN [heap |-> b.heap, cur |-> b.cur.addr]
        ELSE [heap |-> c.heap, cur |-> r.cur]

KindOf(comb) ==
    CASE comb \in {"mixin_let", "pipe_let"} -> "let"
      [] comb \in {"mixin_run", "pipe_run"} -> "run"
      [] comb \in {"mixin_also", "pipe_also"} -> "also"
      [] comb = "mixin_apply" -> "apply"
      [] OTHER -> "with"

\* the record of one evaluated link: the combinator, the lambda, the address
\* of the context object, the heap before and after, what the application
\* returned and the calls of the lambda it made
Link(comb, f, ctx, pre, d) ==
    [comb |-> comb, f |-> f, ctx |-> ctx, pre |-> pre, post |-> d.heap,
     ret |-> d.ret, calls |-> d.calls]

Init ==
    /\ pc = "start"
    /\ heap = InitHeap
    /\ cur = NoCur
    /\ origin = 0
    /\ hist = <<>>
    /\ ref = [heap |-> InitHeap, cur |-> 0]
    /\ wrapper = <<>>
    /\ rejected = <<>>
    /\ closures = InitClosures

\* the expression starts with a named variable: person, cperson or num
StartNamed ==
    /\ pc = "start"
    /\ \E a \in {personAddr, cpersonAddr, numAddr} :
        /\ cur' = [addr |-> a, cat |-> "lvalue"]
        /\ origin' = a
        /\ ref' = [heap |-> heap, cur |-> a]
    /\ pc' = "chain"
    /\ UNCHANGED <<heap, hist, wrapper, rejected, closures>>

\* the expression starts with a temporary: Person() or std::vector<int>{...}
StartTemporary ==
    /\ pc = "start"
    /\ \E o \in {Obj("Person", Nobody, FALSE)} \cup {Obj("Vec", v, FALSE) : v \in VecInputs} :
        /\ heap' = Append(heap, o)
        /\ cur' = [addr |-> Len(heap) + 1, cat |-> "prvalue"]
        /\ origin' = Len(heap) + 1
        /\ ref' = [heap |-> Append(heap, o), cur |-> Len(heap) + 1]
    /\ pc' = "chain"
    /\ UNCHANGED <<hist, wrapper, rejected, closures>>

\* a further link can be written after the expression so far
CanLink == pc = "chain" /\ cur.cat \in {"lvalue", "prvalue"} /\ Len(hist) < MaxChain

\* the link `comb(f)` is evaluated with the result d
Step(comb, f, d) ==
    LET b == Bind(d.heap, d.ret)
    IN  /\ heap' = b.heap
        /\ cur' = b.cur
        /\ hist' = Append(hist, Link(comb, f, cur.addr, heap, d))
        /\ ref' = ByHand(KindOf(comb), f, ref)
        /\ pc' = IF d.ret.kind = "throw" THEN "thrown" ELSE pc
        /\ closures' = AfterCalls(closures, d.calls)
        /\ UNCHANGED <<origin, wrapper, rejected>>

\* c.let(f)
MixinLet ==
    /\ CanLink
    /\ \E f \in Callables :
        /\ AcceptsMixinLet(Operand(heap, cur), f)
        /\ Step("mixin_let", f, ScopeFunctions_let(heap, cur.addr, f))

\* c.run(f)
MixinRun ==
    /\ CanLink
    /\ \E f \in Callables :
        /\ AcceptsMixinRun(Operand(heap, cur), f)
        /\ Step("mixin_run", f, ScopeFunctions_run(heap, cur.addr, f))

\* c.apply(f)
MixinApply ==
    /\ CanLink
    /\ \E f \in Callables :
        /\ AcceptsMixinApply(Operand(heap, cur), f)
        /\ Step("mixin_apply", f, ScopeFunctions_apply(heap, cur.addr, f))

\* c.also(f)
MixinAlso ==
    /\ CanLink
    /\ \E f \in Callables :
        /\ AcceptsMixinAlso(Operand(heap, cur), f)
        /\ Step("mixin_also", f, ScopeFunctions_also(heap, cur.addr, f))

\* c | let(f)
PipeLet ==
    /\ CanLink
    /\ \E f \in Callables :
        /\ AcceptsPipeLet(Operand(heap, cur), f)
        /\ Step("pipe_let", f, pipe_let(heap, cur.addr, Wrap(f)))

\* c | run(f)
PipeRun ==
    /\ CanLink
    /\ \E f \in Callables :
        /\ AcceptsPipeRun(Operand(heap, cur), f)
        /\ Step("pipe_run", f, pipe_run(heap, cur.addr, Wrap(f)))

\* c | also(f)
PipeAlso ==
    /\ CanLink
    /\ \E f \in Callables :
        /\ AcceptsPipeAlso(Operand(heap, cur), f)
        /\ Step("pipe_also", f, pipe_also(heap, cur.addr, Wrap(f)))

\* with(f);  the statement constructs the wrapper
WithCtor ==
    /\ pc = "start"
    /\ \E f \in Callables :
        /\ WrapsWith(f)
        /\ LET d == with_ctor(heap, f)
           IN  /\ heap' = d.heap
               /\ hist' = Append(hist, Link("with", f, 0, heap, d))
               /\ wrapper' = IF d.ret.kind = "throw" THEN <<>>
                             ELSE <<Called(Wrap(f), d.calls[1])>>
               /\ closures' = AfterCalls(closures, d.calls)
               /\ ref' = ByHand("with", f, ref)
               /\ pc' = IF d.ret.kind = "throw" THEN "thrown" ELSE "with"
    /\ UNCHANGED <<cur, origin, rejected>>

\* with(f)();  the caller asks the wrapper for the result
WithCall ==
    /\ pc = "with"
    /\ LET d == with_call(heap, wrapper[1])
           b == Bind(d.heap, d.ret)
       IN  /\ heap' = b.heap
           /\ cur' = b.cur
           /\ hist' = Append(hist, Link("with_call", wrapper[1].fun, 0, heap, d))
           /\ pc' = IF d.ret.kind = "throw" THEN "thrown" ELSE "consumed"
           /\ wrapper' = <<Called(wrapper[1], d.calls[1])>>
           /\ closures' = AfterCalls(closures, d.calls)
    /\ UNCHANGED <<origin, ref, rejected>>

Combinators ==
    {"mixin_let", "mixin_run", "mixin_apply", "mixin_also",
     "pipe_let", "pipe_run", "pipe_also", "pipe_with"}

Accepts(comb, o, f) ==
    CASE comb = "mixin_let" -> AcceptsMixinLet(o, f)
      [] comb = "mixin_run" -> AcceptsMixinRun(o, f)
      [] comb = "mixin_apply" -> AcceptsMixinApply(o, f)
      [] comb = "mixin_also" -> AcceptsMixinAlso(o, f)
      [] comb = "pipe_let" -> AcceptsPipeLet(o, f)
      [] comb = "pipe_run" -> AcceptsPipeRun(o, f)
      [] comb = "pipe_also" -> AcceptsPipeAlso(o, f)
      [] OTHER -> AcceptsPipeWith(o, f)

\* the expression with the refused link is no program: nothing of it runs
Refuse(comb, f, o) ==
    /\ rejected' = <<[comb |-> comb, f |-> f, operand |-> o]>>
    /\ pc' = "rejected"
    /\ heap' = InitHeap
    /\ cur' = NoCur
    /\ origin' = 0
    /\ hist' = <<>>
    /\ ref' = [heap |-> InitHeap, cur |-> 0]
    /\ wrapper' = <<>>
    /\ closures' = InitClosures

\* the compiler refuses the link written after the expression so far
RejectLink ==
    /\ CanLink
    /\ \E comb \in Combinators, f \in Callables :
        /\ ~Accepts(comb, Operand(heap, cur), f)
        /\ Refuse(comb, f, Operand(heap, cur))

\* the compiler refuses with(f)
RejectWith ==
    /\ pc = "start"
    /\ \E f \in Callables :
        /\ ~WrapsWith(f)
        /\ Refuse("with", f, [type |-> "none", const |-> FALSE, cat |-> "none"])

Next ==
    \/ StartNamed
    \/ StartTemporary
    \/ MixinLet
    \/ MixinRun
    \/ MixinApply
    \/ MixinAlso
    \/ PipeLet
    \/ PipeRun
    \/ PipeAlso
    \/ WithCtor
    \/ WithCall
    \/ RejectLink
    \/ RejectWith

Spec == Init /\ [][Next]_vars

(* ------------------------------ claims --------------------------------- *)
Links == 1..Len(hist)

LinksOf(combs) == {i \in Links : hist[i].comb \in combs}

\* the value a call of a lambda produced, as a value
Produced(c) == Decay(c.heap, c.out)

\* C1 as stated: h.let(f) returns exactly the value f produced, and f works on
\* h itself, never on a copy: the object f was passed is h, and h's state is
\* the state f left in that object.
C1_LetWorksOnHostNeverOnCopy ==
    \A i \in LinksOf({"mixin_let"}) :
        LET l == hist[i]
        IN  /\ Len(l.calls) >= 1
            /\ l.ret = Produced(l.calls[1])
            /\ l.calls[1].it = l.ctx
            /\ l.post[l.ctx] = l.post[l.calls[1].it]

\* C1 amended: h.let(f) returns exactly the value f produced; when f declares
\* its parameter as a reference (Base& or const Base&) the object f works on
\* is h itself, so h's state is the state f left in it; when f declares its
\* parameter by value (which the static_assert accepts as well) f works on a
\* copy of h, a different object.
C1_LetReturnsResultAndRefParamIsHost ==
    \A i \in LinksOf({"mixin_let"}) :
        LET l == hist[i]
        IN  /\ Len(l.calls) >= 1
            /\ l.ret = Produced(l.calls[1])
            /\ l.calls[1].arg = l.ctx
            /\ l.f.pref = "lref" =>
                 /\ l.calls[1].it = l.ctx
                 /\ l.post[l.ctx] = l.calls[1].heap[l.calls[1].it]
            /\ l.f.pref = "none" =>
                 /\ l.calls[1].it # l.ctx
                 /\ l.calls[1].it \notin 1..Len(l.pre)

\* C1 witness: person.let(renameSelf) has run: the lambda changed the host
\* through its reference parameter and let returned a value
C1_Witness ==
    \E i \in LinksOf({"mixin_let"}) :
        /\ hist[i].f.pref = "lref"
        /\ hist[i].post[hist[i].ctx] # hist[i].pre[hist[i].ctx]
        /\ hist[i].ret.kind = "value"

\* the links that return the context object (apply, also)
SelfReturning == {"mixin_apply", "mixin_also", "pipe_also"}

\* the application recorded as link l returned (no exception left it)
Returned(l) == l.ret.kind # "throw"

\* C2: apply, also and | also, when they return, yield a reference to the
\* context object itself, whatever the lambda returns; so after any sequence
\* of such links the operand is still the object the chain started on, and
\* the next link reads and writes that very object.
C2_SelfReturningAliasesContext ==
    /\ \A i \in LinksOf(SelfReturning) :
          /\ Returned(hist[i]) => hist[i].ret = Ref(hist[i].ctx)
          /\ i < Len(hist) => hist[i + 1].ctx = hist[i].ctx
    /\ (pc = "chain" /\ \A i \in Links : hist[i].comb \in SelfReturning) =>
          cur = [addr |-> origin, cat |-> IF hist = <<>> THEN cur.cat ELSE "lvalue"]

\* C2 witness: two self-returning links in a row, the first with a lambda
\* whose result is not void, the second writing to the object
C2_Witness ==
    /\ Len(hist) >= 2
    /\ hist[1].comb \in SelfReturning
    /\ hist[1].f.rtype # "void"
    /\ hist[2].comb \in SelfReturning
    /\ hist[2].post[origin] # hist[2].pre[origin]

ArgumentReceiving == {"mixin_let", "mixin_also", "pipe_let", "pipe_also"}

\* the lambda of link l handed the context object back as its result:
\* `return it;` with the result declared a reference, or declared a value
HandsBack(l) == l.calls[1].out = Ref(l.calls[1].it) \/ l.f = pushBack4

\* C3 as stated: in a chain of let and also links, the let links handing the
\* context object back for the next link, every lambda is passed the same
\* instance as the first one.
C3_ChainSeesOneInstance ==
    (\A i \in Links :
        /\ hist[i].comb \in ArgumentReceiving
        /\ KindOf(hist[i].comb) = "let" => HandsBack(hist[i]))
    => \A i \in Links : hist[i].calls[1].it = hist[1].calls[1].it

\* C3 amended: in a chain of let and also links, every lambda that takes its
\* parameter by reference and has only also links before it is passed the
\* object the chain started on; a let link returns its lambda's result by
\* value, so the link after a let is passed a new object, also when the
\* lambda handed the context object back (the new object then holds a copy
\* of it).
C3_AlsoChainSeesOneInstanceLetCopies ==
    (\A i \in Links : hist[i].comb \in ArgumentReceiving) =>
        \A i \in Links :
            LET l == hist[i]
            IN  /\ ( /\ l.f.pref = "lref"
                     /\ \A j \in 1..(i - 1) : KindOf(hist[j].comb) = "also" )
                   => l.calls[1].it = origin
                /\ (i > 1 /\ KindOf(hist[i - 1].comb) = "let") =>
                     /\ l.ctx \notin 1..Len(hist[i - 1].post)
                     /\ l.pre[l.ctx].type = hist[i - 1].ret.type
                     /\ l.pre[l.ctx].val = hist[i - 1].ret.val
                     /\ hist[i - 1].calls[1].out.kind = "ref" =>
                          l.pre[l.ctx].val = hist[i - 1].post[hist[i - 1].calls[1].out.addr].val

\* C3 witness: a let whose lambda hands the context object back, followed by
\* an also link
C3_Witness ==
    /\ Len(hist) >= 2
    /\ KindOf(hist[1].comb) = "let"
    /\ hist[1].calls[1].out = Ref(origin)
    /\ KindOf(hist[2].comb) = "also"

Applications ==
    {"mixin_let", "mixin_run", "mixin_apply", "mixin_also",
     "pipe_let", "pipe_run", "pipe_also"}

\* C4: every application of let, run, apply, also (member or |) has called
\* its lambda exactly once when it returns, and the call is complete: the
\* heap the application leaves is the heap the call left.
C4_CalledExactlyOnce ==
    \A i \in LinksOf(Applications) :
        /\ Len(hist[i].calls) = 1
        /\ hist[i].calls[1].f = hist[i].f.id
        /\ hist[i].post = hist[i].calls[1].heap

\* C4 witness: a chain of three links, a member call and | steps among them
C4_Witness ==
    /\ Len(hist) = 3
    /\ \E i, j \in Links :
        /\ hist[i].comb \in {"mixin_let", "mixin_run", "mixin_apply", "mixin_also"}
        /\ hist[j].comb \in {"pipe_let", "pipe_run", "pipe_also"}

\* all calls of lambdas made so far, in order
RECURSIVE CallsUpTo(_)
CallsUpTo(n) == IF n = 0 THEN <<>> ELSE CallsUpTo(n - 1) \o hist[n].calls

\* C5 as stated: with(f) calls f at construction, and over construction plus
\* the caller consuming the result f is called exactly once.
C5_WithCallsOnceOverItsUse ==
    pc \in {"with", "consumed"} =>
        /\ hist[1].comb = "with"
        /\ Len(hist[1].calls) = 1
        /\ Len(CallsUpTo(Len(hist))) = 1

\* C6 as stated: the value the caller obtains from a with wrapper is the value
\* produced by the call of the lambda made at construction.
C6_WithYieldsConstructionResult ==
    pc = "consumed" => hist[2].ret = Produced(hist[1].calls[1])

Mismatch(o, f) == f.params = 1 /\ base_type(ParamOf(f)) # o.type

\* C8: a let or also (member or |) whose lambda's qualifier-stripped parameter
\* type differs from the type of the context object is refused by the
\* compiler: no such application is ever evaluated, and a refused expression
\* has called nothing, produced nothing and changed no object.
C8_MismatchIsRejected ==
    /\ CanLink =>
          \A comb \in ArgumentReceiving, f \in Lambdas :
              Mismatch(Operand(heap, cur), f) => ~Accepts(comb, Operand(heap, cur), f)
    /\ \A i \in LinksOf(ArgumentReceiving) :
          ~Mismatch([type |-> hist[i].pre[hist[i].ctx].type], hist[i].f)
    /\ pc = "rejected" =>
          /\ hist = <<>>
          /\ heap = InitHeap
          /\ cur = NoCur

\* C8 witness: a | let or | also with a lambda for another type was refused
C8_Witness ==
    /\ pc = "rejected"
    /\ rejected[1].comb \in ArgumentReceiving
    /\ Mismatch(rejected[1].operand, rejected[1].f)

\* C9 as stated: run, apply, the run wrapper and with only ever take lambdas
\* that declare no parameter, let and also only lambdas that declare one.
C9_ArityIsEnforced ==
    \A i \in Links :
        IF KindOf(hist[i].comb) \in {"let", "also"}
        THEN hist[i].f.params = 1
        ELSE hist[i].f.params = 0

\* C10: c | run(f) is accepted for a context object of any type, const or
\* not, named or temporary; run steps and the member functions run and apply
\* call the lambda without an argument, run returns exactly what the lambda
\* produced, and the objects afterwards are what calling f() directly leaves:
\* a context object the lambda did not capture is unchanged.
C10_RunIgnoresContext ==
    /\ CanLink =>
          \A f \in Lambdas :
              LambdaReflectionNoArg(f).ok => AcceptsPipeRun(Operand(heap, cur), f)
    /\ \A i \in LinksOf({"pipe_run", "mixin_run", "mixin_apply"}) :
          LET l == hist[i]
          IN  /\ Len(l.calls) = 1
              /\ l.calls[1].arg = 0
              /\ l.post = Invoke(l.f, l.pre, 0).heap
              /\ l.comb # "mixin_apply" => l.ret = Produced(l.calls[1])
              /\ l.f.cap # l.ctx => l.post[l.ctx] = l.pre[l.ctx]

\* C10 witness: cperson | run(f) | run(g): a run step on a const named object
\* and one on a temporary, with a lambda that wrote through its capture
C10_Witness ==
    /\ Len(hist) >= 2
    /\ hist[1].comb = "pipe_run" /\ hist[1].ctx = cpersonAddr
    /\ hist[2].comb = "pipe_run" /\ cur.cat = "prvalue"
    /\ hist[2].post # hist[2].pre

\* the call f(x) made directly, without the library, on heap h (arg: the
\* address of x, 0 for f())
Direct(l) ==
    Invoke(l.f, l.pre, IF KindOf(l.comb) \in {"let", "also"} THEN l.ctx ELSE 0)

\* C11: when the lambda of an application (let, run, apply, also as member or
\* | step, with at construction or when called) throws, the application ends
\* with that very exception: the lambda was called once and not again, what
\* leaves the application is the exception of that call and no value or
\* reference, the link is the last one of the expression and nothing can be
\* evaluated after it, and every object is in the state the call left it in,
\* which is the state the direct call f(x) or f() leaves.
C11_ThrowPropagatesUnchanged ==
    /\ \A i \in Links :
          LET l == hist[i]
          IN  (\E k \in 1..Len(l.calls) : l.calls[k].out.kind = "throw") =>
                /\ Len(l.calls) = 1
                /\ l.ret = l.calls[1].out
                /\ l.ret = Direct(l).out
                /\ l.post = l.calls[1].heap
                /\ l.post = Direct(l).heap
                /\ i = Len(hist)
                /\ pc = "thrown"
                /\ cur.addr = 0 /\ cur.cat \notin {"lvalue", "prvalue"}
                /\ heap = l.post
                /\ \A a \in 1..Len(InitHeap) : heap[a] = ref.heap[a]
    /\ pc = "thrown" =>
          /\ hist # <<>>
          /\ hist[Len(hist)].ret.kind = "throw"
          /\ ~CanLink
          /\ wrapper = <<>>

\* C11 witness: person.also(f).also(g) or person | also(f) | also(g) with g
\* throwing after it wrote to the context object: the first link ran, the
\* second changed the object and ended the expression
C11_Witness ==
    /\ pc = "thrown"
    /\ Len(hist) = 2
    /\ KindOf(hist[2].comb) = "also"
    /\ hist[2].f = zeroAgeThrow
    /\ hist[2].post[hist[2].ctx] # hist[2].pre[hist[2].ctx]
    /\ heap[hist[2].ctx].val.age = 0

\* C12: in a chain of member calls and | steps the lambdas are called in the
\* order of the links, one call per link; the call of link i is complete
\* when link i+1 starts: the heap link i+1 starts from holds every object as
\* link i left it, and the call of link i+1 is the call of its lambda on that
\* heap; and the operand of link i+1 is what link i yielded: for let and run
\* a new object holding the value the lambda produced, for also and apply
\* the context object of link i itself.
C12_LeftToRight ==
    pc \in {"chain", "thrown"} =>
        /\ Len(CallsUpTo(Len(hist))) = Len(hist)
        /\ \A i \in Links :
              /\ CallsUpTo(Len(hist))[i] = hist[i].calls[1]
              /\ hist[i].calls[1] = Direct(hist[i])
        /\ \A i \in 1..(Len(hist) - 1) :
              LET l == hist[i]
                  n == hist[i + 1]
                  p == Produced(l.calls[1])
              IN  /\ Len(n.pre) >= Len(l.post)
                  /\ SubSeq(n.pre, 1, Len(l.post)) = l.post
                  /\ KindOf(l.comb) \in {"let", "run"} =>
                        /\ p.kind = "value"
                        /\ n.ctx = Len(l.post) + 1
                        /\ Len(n.pre) = Len(l.post) + 1
                        /\ n.pre[n.ctx].type = p.type
                        /\ n.pre[n.ctx].val = p.val
                  /\ KindOf(l.comb) \in {"also", "apply"} =>
                        /\ n.ctx = l.ctx
                        /\ n.pre = l.post

\* C12 witness: person.apply(setAgeSelf) | let(ageOf) | also(doubleIt): the
\* let read the age the apply had set, the also doubled what the let returned
C12_Witness ==
    /\ Len(hist) = 3
    /\ hist[1].comb = "mixin_apply" /\ hist[1].f = setAgeSelf
    /\ hist[2].comb = "pipe_let" /\ hist[2].f = ageOf
    /\ hist[2].ret = Value("UInt", 8)
    /\ hist[3].comb = "pipe_also" /\ hist[3].f = doubleIt
    /\ heap[cur.addr] = Obj("UInt", 16, FALSE)

\* the links whose scope function was constructed from a named closure
\* object of the caller (with_call is a second call of a wrapper already
\* constructed)
FromNamed == {i \in Links : hist[i].comb # "with_call" /\ hist[i].f.id \in DOMAIN closures}

\* C13: a scope function built from a named closure object works on its own
\* copy: the object it calls starts in the state the caller's object is in
\* and the call changes the copy only, so the caller's object keeps its
\* state through every application; two wrappers built from the same closure
\* start from the same state, whatever the first one's call did to its copy;
\* and the state a with wrapper accumulates over its calls is its own.
C13_WrappersOwnPrivateCopies ==
    /\ closures = InitClosures
    /\ \A i \in FromNamed :
          /\ hist[i].f = closures[hist[i].f.id]
          /\ Len(hist[i].calls) = 1
          /\ hist[i].calls[1].st = hist[i].f.st + 1
          /\ hist[i].calls[1].st # closures[hist[i].f.id].st
    /\ \A i, j \in FromNamed :
          hist[i].f.id = hist[j].f.id => hist[i].f.st = hist[j].f.st
    /\ (pc \in {"with", "consumed"} /\ wrapper[1].fun.id \in DOMAIN closures) =>
          /\ wrapper[1].fun.st = Len(hist)
          /\ wrapper[1].fun.st # closures[wrapper[1].fun.id].st

\* C13 witness: num | also(counter) | also(counter): two wrappers built from
\* the same closure have each added 1 to num (3 + 1 + 1)
C13_Witness ==
    /\ Len(hist) >= 2
    /\ hist[1].comb = "pipe_also" /\ hist[1].f.id = "counter"
    /\ hist[2].comb = "pipe_also" /\ hist[2].f.id = "counter"
    /\ hist[1].ctx = numAddr
    /\ heap[numAddr] = Obj("UInt", 5, FALSE)

\* C14: the static_assert of operator| for let and also compares the type of
\* the context object as it is, const included, with the qualifier-stripped
\* parameter type of the lambda: a const context object is refused by | let
\* and | also with every callable, also one that takes a const reference to
\* the very type of the context object, while on a context object that is
\* not const the qualifiers of the parameter make no difference; so no | let
\* or | also step that was evaluated had a const context object.
C14_ConstContextRejected ==
    /\ CanLink =>
          LET o == Operand(heap, cur)
          IN  \A f \in Callables :
                /\ o.const => ~AcceptsPipeLet(o, f) /\ ~AcceptsPipeAlso(o, f)
                /\ (~o.const /\ f.params = 1 /\ f.ptype = o.type /\ f.pref # "rref") =>
                      AcceptsPipeLet(o, f) /\ AcceptsPipeAlso(o, f)
    /\ \A i \in LinksOf({"pipe_let", "pipe_also"}) :
          ~hist[i].pre[hist[i].ctx].const
    /\ (pc = "rejected" /\ rejected[1].comb \in {"pipe_let", "pipe_also"}) =>
          \/ rejected[1].operand.const
          \/ rejected[1].f.params # 1
          \/ rejected[1].f.pref = "rref"
          \/ Mismatch(rejected[1].operand, rejected[1].f)

\* C14 witness: cperson | let([](const Person& it) { return it.age; }) was
\* refused: the context object is const, the lambda takes a const reference
\* and the qualifier-stripped types are equal
C14_Witness ==
    /\ pc = "rejected"
    /\ rejected[1].comb = "pipe_let"
    /\ rejected[1].operand.const
    /\ rejected[1].f = ageOf
    /\ base_type(ParamOf(rejected[1].f)) = rejected[1].operand.type

====
